---- MODULE Spec2Model ----
(***************************************************************************)
(* Model of the WGSL -> MSL translator in src/scripts/src/main.rs:         *)
(* main, convert_wgsl_to_msl, determine_entrypoint_name and                *)
(* rename_entrypoint.                                                      *)
(*                                                                         *)
(* Text is a sequence of chunks of bytes.  A file stem is a sequence over  *)
(* "_", "vertex", "fragment", "overlay" and "x" (any other byte), so that  *)
(* "_vertex" is <<"_", "vertex">>.  MSL text is a sequence over the        *)
(* pieces of a function declaration: the kind keyword ("vertex "), the     *)
(* return type ("main_Output ") and the function name with its opening     *)
(* parenthesis ("main_(").  ends_with, contains and replace are computed   *)
(* on these sequences as the standard library computes them on bytes.      *)
(*                                                                         *)
(* The external library (naga) is the environment: parse, validate and     *)
(* write_string succeed or fail as the environment decides, and what they  *)
(* return is drawn from bounded sets.                                      *)
(***************************************************************************)
EXTENDS FiniteSets, Integers, Sequences, TLC

VARIABLES pc, argc, input_path, env, module, module_info, entrypoint_name,
          per_entry_point_map, msl_source, msl_final, output_file, result,
          stderr, exit_status, trace

vars == <<pc, argc, input_path, env, module, module_info, entrypoint_name,
          per_entry_point_map, msl_source, msl_final, output_file, result,
          stderr, exit_status, trace>>

\* ------------------------------------------------------------------ bounds

\* The longest file stem, in chunks.
MaxStemLen == 5
\* The longest MSL text given to the renamer alone, in chunks.
MaxTextLen == 5
\* The most global variables of a module given to the binding-map builder.
MaxGlobals == 2

\* ------------------------------------------------------------- Option<T>

None == <<>>
Some(v) == <<v>>
IsSome(o) == o # None
Unwrap(o) == o[1]

\* ------------------------------------------------------------- str helpers

\* str::ends_with
EndsWith(s, suffix) ==
    /\ Len(s) >= Len(suffix)
    /\ SubSeq(s, Len(s) - Len(suffix) + 1, Len(s)) = suffix

\* the pattern occurs in s at position i
MatchAt(s, pat, i) ==
    /\ i >= 1
    /\ i + Len(pat) - 1 <= Len(s)
    /\ SubSeq(s, i, i + Len(pat) - 1) = pat

\* str::contains
Contains(s, pat) == \E i \in 1..Len(s) : MatchAt(s, pat, i)

\* str::replace: the non-overlapping matches, found left to right, replaced
RECURSIVE ReplaceFrom(_, _, _, _)
ReplaceFrom(s, from, to, i) ==
    IF i > Len(s) THEN <<>>
    ELSE IF MatchAt(s, from, i)
         THEN to \o ReplaceFrom(s, from, to, i + Len(from))
         ELSE <<s[i]>> \o ReplaceFrom(s, from, to, i + 1)

Replace(s, from, to) == ReplaceFrom(s, from, to, 1)

\* ------------------------------------------------- determine_entrypoint_name

VertexSuffix == <<"_", "vertex">>
FragmentSuffix == <<"_", "fragment">>
OverlayMarker == <<"_", "overlay", "_">>

determine_entrypoint_name_overlay_first(file_stem) ==
    IF Contains(file_stem, OverlayMarker)
    THEN IF EndsWith(file_stem, FragmentSuffix)
         THEN Some("overlay_fragment")
         ELSE Some("overlay_vertex")
    ELSE IF EndsWith(file_stem, VertexSuffix) THEN Some("main_vertex")
    ELSE IF EndsWith(file_stem, FragmentSuffix) THEN Some("main_fragment")
    ELSE None

determine_entrypoint_name(file_stem) ==
    IF EndsWith(file_stem, VertexSuffix)
    THEN IF Contains(file_stem, OverlayMarker)
         THEN Some("overlay_vertex")
         ELSE Some("main_vertex")
    ELSE IF EndsWith(file_stem, FragmentSuffix)
    THEN IF Contains(file_stem, OverlayMarker)
         THEN Some("overlay_fragment")
         ELSE Some("main_fragment")
    ELSE None

\* ---------------------------------------------------------- rename_entrypoint

\* format!("vertex main_Output {}(", name) and its fragment twin
VertexDecl(name) == <<"vertex ", "main_Output ", name \o "(">>
FragmentDecl(name) == <<"fragment ", "main_Output ", name \o "(">>

rename_entrypoint_vertex_only(source, old_name, new_name) ==
    Replace(source, VertexDecl(old_name), VertexDecl(new_name))

rename_entrypoint_fragment_only(source, old_name, new_name) ==
    Replace(source, FragmentDecl(old_name), FragmentDecl(new_name))

rename_entrypoint_any_kind(source, old_name, new_name) ==
    [i \in 1..Len(source) |->
        IF source[i] = old_name \o "(" THEN new_name \o "(" ELSE source[i]]

rename_entrypoint(source, old_name, new_name) ==
    LET vertex_pattern == VertexDecl(old_name)
        fragment_pattern == FragmentDecl(old_name)
        result1 == Replace(source, vertex_pattern, VertexDecl(new_name))
    IN  Replace(result1, fragment_pattern, FragmentDecl(new_name))

\* ------------------------------------------------------- binding-map builder

\* u8: what "as u8" keeps of a u32
U8Range == 256
AsU8(n) == n % U8Range

\* naga::AddressSpace; access is naga::StorageAccess, empty outside Storage
Uniform == [tag |-> "Uniform", access |-> {}]
Storage(access) == [tag |-> "Storage", access |-> access]
Handle == [tag |-> "Handle", access |-> {}]
Private == [tag |-> "Private", access |-> {}]

\* naga::ResourceBinding
ResourceBinding(group, binding) == [group |-> group, binding |-> binding]

\* BTreeMap::insert: a later value for the same key replaces the earlier one
MapInsert(map, key, value) ==
    [k \in DOMAIN map \cup {key} |-> IF k = key THEN value ELSE map[k]]

EmptyMap == [k \in {} |-> None]

IsUsedByAnyEntryPoint(info, ep_index, handle) ==
    \E e \in 1..Len(info) : info[e][handle] # {}

\* !ep_info[handle].is_empty()
IsUsed(info, ep_index, handle) == info[ep_index][handle] # {}

BufferSlotPlusGroup(binding) == AsU8(binding.group + binding.binding)

\* binding.binding as u8
BufferSlot(binding) == AsU8(binding.binding)

\* the match on global_var.space: Some(BindTarget), or None for "continue"
BindTarget(global_var) ==
    IF global_var.space.tag \in {"Uniform", "Storage"}
    THEN Some([buffer |-> Some(BufferSlot(Unwrap(global_var.binding))),
               texture |-> None,
               sampler |-> None,
               mutable |-> /\ global_var.space.tag = "Storage"
                           /\ "STORE" \in global_var.space.access])
    ELSE None

\* the loop over module.global_variables, from handle on, for one entry point
RECURSIVE CollectResources(_, _, _, _, _)
CollectResources(m, info, ep_index, handle, resources) ==
    IF handle > Len(m.global_variables) THEN resources
    ELSE LET global_var == m.global_variables[handle]
             inserted ==
                 IF /\ IsUsed(info, ep_index, handle)
                    /\ IsSome(global_var.binding)
                    /\ IsSome(BindTarget(global_var))
                 THEN MapInsert(resources,
                                ResourceBinding(Unwrap(global_var.binding).group,
                                                Unwrap(global_var.binding).binding),
                                Unwrap(BindTarget(global_var)))
                 ELSE resources
         IN  CollectResources(m, info, ep_index, handle + 1, inserted)

\* msl::EntryPointResources of one entry point
EntryPointResources(m, info, ep_index) ==
    [resources |-> CollectResources(m, info, ep_index, 1, EmptyMap),
     push_constant_buffer |-> None,
     sizes_buffer |-> None]

\* the loop over module.entry_points, from ep_index on
RECURSIVE CollectEntryPoints(_, _, _, _)
CollectEntryPoints(m, info, ep_index, map) ==
    IF ep_index > Len(m.entry_points) THEN map
    ELSE CollectEntryPoints(m, info, ep_index + 1,
             MapInsert(map, m.entry_points[ep_index].name,
                       EntryPointResources(m, info, ep_index)))

BuildPerEntryPointMap(m, info) == CollectEntryPoints(m, info, 1, EmptyMap)

\* ------------------------------------------------------------ input domains

SeqsUpTo(S, n) == UNION {[1..k -> S] : k \in 0..n}

StemChunks == {"_", "vertex", "fragment", "overlay", "x"}
FileStems == SeqsUpTo(StemChunks, MaxStemLen) \ {<<>>}

EntryPointNames == {"overlay_vertex", "main_vertex", "overlay_fragment", "main_fragment"}

TextChunks == {"vertex ", "fragment ", "main_Output ", "main_(", "float4 "}
Texts == SeqsUpTo(TextChunks, MaxTextLen)

AddressSpaces == {Uniform, Storage({"LOAD"}), Storage({"LOAD", "STORE"}), Handle, Private}
Bindings == {None, Some(ResourceBinding(0, 0)), Some(ResourceBinding(0, 1)),
             Some(ResourceBinding(1, 0)), Some(ResourceBinding(0, 256))}
GlobalVariables == [space : AddressSpaces, binding : Bindings]

\* naga::valid::GlobalUse of one global by one entry point
GlobalUses == {{}, {"READ"}}

\* naga::EntryPoint: a name and a shader stage
EntryPoint(name, stage) == [name |-> name, stage |-> stage]
EntryPoints == {EntryPoint("main", "vertex"), EntryPoint("vs_main", "vertex"),
                EntryPoint("main", "fragment"), EntryPoint("fs_main", "fragment")}

\* the entry points of a module: no two share a name (WGSL declares a name once)
EntryPointLists ==
    {eps \in SeqsUpTo(EntryPoints, 2) :
        \A i, j \in 1..Len(eps) : i # j => eps[i].name # eps[j].name}

\* the modules given to the binding-map builder alone
BuilderEntryPointLists ==
    {<<>>,
     <<EntryPoint("main", "vertex")>>,
     <<EntryPoint("main", "vertex"), EntryPoint("fs_main", "fragment")>>}
BuilderModules ==
    [global_variables : SeqsUpTo(GlobalVariables, MaxGlobals),
     entry_points : BuilderEntryPointLists]

\* the modules given to the whole driver
DriverGlobalLists ==
    {<<>>,
     <<[space |-> Uniform, binding |-> Some(ResourceBinding(0, 0))]>>,
     <<[space |-> Storage({"LOAD", "STORE"}), binding |-> Some(ResourceBinding(0, 256))]>>}
DriverModules ==
    [global_variables : DriverGlobalLists, entry_points : EntryPointLists]

\* The validator (ValidationFlags::all()) rejects an entry point that uses two
\* globals with the same (group, binding): EntryPointError::BindingCollision.
NoBindingCollision(m, info) ==
    \A e \in 1..Len(info) : \A g, h \in 1..Len(m.global_variables) :
        (/\ g # h
         /\ info[e][g] # {} /\ info[e][h] # {}
         /\ IsSome(m.global_variables[g].binding))
        => m.global_variables[g].binding # m.global_variables[h].binding

\* what Validator::validate may return for a module: one FunctionInfo per entry
\* point, indexed by global handle
ModuleInfos(m) ==
    {info \in [1..Len(m.entry_points) -> [1..Len(m.global_variables) -> GlobalUses]] :
        NoBindingCollision(m, info)}

\* file stems given to the whole driver; None: the path has no final component
DriverStems ==
    {<<"x", "_", "overlay", "_", "vertex">>, <<"x", "_", "vertex">>,
     <<"x", "_", "overlay", "_", "fragment">>, <<"x", "_", "fragment">>, <<"x">>}
DriverPaths == {[file_stem |-> None]} \cup {[file_stem |-> Some(st)] : st \in DriverStems}

\* what the file system and the library will answer in this run
WriteOutcomes == {"ok", "create_failed", "write_failed"}
Environments ==
    [read : BOOLEAN, parse : BOOLEAN, validate : BOOLEAN, generate : BOOLEAN,
     write : WriteOutcomes]

\* ---------------------------------------------------------- the MSL generator

\* naga's namer: an MSL reserved word gets a trailing underscore
MslName(name) == IF name = "main" THEN "main_" ELSE name

StageKeyword(stage) == stage \o " "

\* the return type of an entry point's function: its output struct, or void for
\* a fragment function that returns nothing
ReturnTypes(ep) ==
    IF ep.stage = "fragment"
    THEN {MslName(ep.name) \o "Output ", "void "}
    ELSE {MslName(ep.name) \o "Output "}

\* the texts msl::write_string may return for the entry points from i on
RECURSIVE GeneratedFunctions(_, _)
GeneratedFunctions(eps, i) ==
    IF i > Len(eps) THEN {<<>>}
    ELSE {<<StageKeyword(eps[i].stage), ret, MslName(eps[i].name) \o "(", "{...} ">> \o rest :
            ret \in ReturnTypes(eps[i]), rest \in GeneratedFunctions(eps, i + 1)}

GeneratedSources(m) ==
    {<<"#include <metal_stdlib> ">> \o fns : fns \in GeneratedFunctions(m.entry_points, 1)}

\* ------------------------------------------------------------------- driver

NoModule == [global_variables |-> <<>>, entry_points |-> <<>>]

StageAfterAsDocumented(stage) ==
    CASE stage = "main" -> "read"
      [] stage = "read" -> "parse"
      [] stage = "parse" -> "validate"
      [] stage = "validate" -> "build"
      [] stage = "build" -> "generate"
      [] stage = "generate" -> "classify"
      [] stage = "classify" -> "rename"
      [] stage = "rename" -> "write"
      [] stage = "write" -> "returned"

\* the order of the statements of main and convert_wgsl_to_msl
StageAfter(stage) ==
    CASE stage = "main" -> "read"
      [] stage = "read" -> "parse"
      [] stage = "parse" -> "validate"
      [] stage = "validate" -> "classify"
      [] stage = "classify" -> "build"
      [] stage = "build" -> "generate"
      [] stage = "generate" -> "rename"
      [] stage = "rename" -> "write"
      [] stage = "write" -> "returned"

\* a stage went through: on to the next statement
Proceed(stage) ==
    /\ pc' = StageAfter(stage)
    /\ trace' = Append(trace, stage)
    /\ result' = IF StageAfter(stage) = "returned" THEN Some("Ok") ELSE result

\* the ? operator: convert_wgsl_to_msl returns Err(message)
Fail(message) ==
    /\ pc' = "returned"
    /\ result' = Some(message)
    /\ trace' = trace

InitCommon ==
    /\ module = NoModule
    /\ module_info = <<>>
    /\ entrypoint_name = None
    /\ per_entry_point_map = EmptyMap
    /\ msl_source = <<>>
    /\ msl_final = <<>>
    /\ output_file = None
    /\ result = None
    /\ stderr = <<>>
    /\ exit_status = None
    /\ trace = <<>>

Init ==
    /\ pc = "main"
    /\ argc \in {2, 3, 4}
    /\ input_path \in DriverPaths
    /\ env \in Environments
    /\ InitCommon

\* main: the argument count, then the call of convert_wgsl_to_msl
Main ==
    /\ pc = "main"
    /\ IF argc # 3
       THEN /\ stderr' = <<"Usage: ">>
            /\ exit_status' = Some(1)
            /\ pc' = "exited"
            /\ UNCHANGED <<trace, result>>
       ELSE /\ pc' = StageAfter("main")
            /\ UNCHANGED <<stderr, exit_status, trace, result>>
    /\ UNCHANGED <<argc, input_path, env, module, module_info, entrypoint_name,
                   per_entry_point_map, msl_source, msl_final, output_file>>

\* fs::read_to_string(input_path)
Read ==
    /\ pc = "read"
    /\ IF env.read THEN Proceed("read") ELSE Fail("Failed to read")
    /\ UNCHANGED <<argc, input_path, env, module, module_info, entrypoint_name,
                   per_entry_point_map, msl_source, msl_final, output_file,
                   stderr, exit_status>>

\* naga::front::wgsl::parse_str(&wgsl_source)
Parse ==
    /\ pc = "parse"
    /\ IF env.parse
       THEN /\ module' \in DriverModules
            /\ Proceed("parse")
       ELSE /\ Fail("WGSL parse error")
            /\ UNCHANGED module
    /\ UNCHANGED <<argc, input_path, env, module_info, entrypoint_name,
                   per_entry_point_map, msl_source, msl_final, output_file,
                   stderr, exit_status>>

\* validator.validate(&module)
Validate ==
    /\ pc = "validate"
    /\ IF env.validate
       THEN /\ module_info' \in ModuleInfos(module)
            /\ Proceed("validate")
       ELSE /\ Fail("Validation error")
            /\ UNCHANGED module_info
    /\ UNCHANGED <<argc, input_path, env, module, entrypoint_name,
                   per_entry_point_map, msl_source, msl_final, output_file,
                   stderr, exit_status>>

\* input_path.file_stem() ... ok_or("Invalid filename")?, then
\* determine_entrypoint_name(file_stem)
Classify ==
    /\ pc = "classify"
    /\ IF IsSome(input_path.file_stem)
       THEN /\ entrypoint_name' = determine_entrypoint_name(Unwrap(input_path.file_stem))
            /\ Proceed("classify")
       ELSE /\ Fail("Invalid filename")
            /\ UNCHANGED entrypoint_name
    /\ UNCHANGED <<argc, input_path, env, module, module_info,
                   per_entry_point_map, msl_source, msl_final, output_file,
                   stderr, exit_status>>

\* the two loops that fill per_entry_point_map
Build ==
    /\ pc = "build"
    /\ per_entry_point_map' = BuildPerEntryPointMap(module, module_info)
    /\ Proceed("build")
    /\ UNCHANGED <<argc, input_path, env, module, module_info, entrypoint_name,
                   msl_source, msl_final, output_file, stderr, exit_status>>

GenerateIgnoringError ==
    /\ pc = "generate"
    /\ IF env.generate
       THEN msl_source' \in GeneratedSources(module)
       ELSE msl_source' = <<>>
    /\ Proceed("generate")
    /\ UNCHANGED <<argc, input_path, env, module, module_info, entrypoint_name,
                   per_entry_point_map, msl_final, output_file, stderr, exit_status>>

\* msl::write_string(&module, &module_info, &options, &pipeline_options)
Generate ==
    /\ pc = "generate"
    /\ IF env.generate
       THEN /\ msl_source' \in GeneratedSources(module)
            /\ Proceed("generate")
       ELSE /\ Fail("MSL generation error")
            /\ UNCHANGED msl_source
    /\ UNCHANGED <<argc, input_path, env, module, module_info, entrypoint_name,
                   per_entry_point_map, msl_final, output_file, stderr, exit_status>>

\* if let Some(new_name) = entrypoint_name { rename_entrypoint(..) } else { msl_source }
Rename ==
    /\ pc = "rename"
    /\ msl_final' = IF IsSome(entrypoint_name)
                    THEN rename_entrypoint(msl_source, "main_", Unwrap(entrypoint_name))
                    ELSE msl_source
    /\ Proceed("rename")
    /\ UNCHANGED <<argc, input_path, env, module, module_info, entrypoint_name,
                   per_entry_point_map, msl_source, output_file, stderr, exit_status>>

\* fs::write(output_path, msl_final): the file is created (truncated) and then
\* written; a failure of the creation leaves the file alone, a failure of the
\* writing leaves a part of the text in it
Write ==
    /\ pc = "write"
    /\ CASE env.write = "ok" ->
              /\ output_file' = Some([complete |-> TRUE, text |-> msl_final])
              /\ Proceed("write")
         [] env.write = "create_failed" ->
              /\ UNCHANGED output_file
              /\ Fail("Failed to write")
         [] env.write = "write_failed" ->
              /\ \E n \in 0..(Len(msl_final) - 1) :
                    output_file' = Some([complete |-> FALSE, text |-> SubSeq(msl_final, 1, n)])
              /\ Fail("Failed to write")
    /\ UNCHANGED <<argc, input_path, env, module, module_info, entrypoint_name,
                   per_entry_point_map, msl_source, msl_final, stderr, exit_status>>

\* main: if let Err(e) = ... { eprintln!("Error: {}", e); process::exit(1) }
Exit ==
    /\ pc = "returned"
    /\ IF result = Some("Ok")
       THEN /\ exit_status' = Some(0)
            /\ UNCHANGED stderr
       ELSE /\ exit_status' = Some(1)
            /\ stderr' = <<"Error: ", Unwrap(result)>>
    /\ pc' = "exited"
    /\ UNCHANGED <<argc, input_path, env, module, module_info, entrypoint_name,
                   per_entry_point_map, msl_source, msl_final, output_file,
                   result, trace>>

Next ==
    \/ Main
    \/ Read
    \/ Parse
    \/ Validate
    \/ Classify
    \/ Build
    \/ Generate
    \/ Rename
    \/ Write
    \/ Exit

Spec == Init /\ [][Next]_vars

\* ------------------------------------------- the pure functions, on their own

AllOk == [read |-> TRUE, parse |-> TRUE, validate |-> TRUE, generate |-> TRUE,
          write |-> "ok"]

\* determine_entrypoint_name on every file stem of at most MaxStemLen chunks
InitClassify ==
    /\ pc = "classify"
    /\ argc = 3
    /\ input_path \in {[file_stem |-> Some(st)] : st \in FileStems}
    /\ env = AllOk
    /\ InitCommon

NextClassify == Classify

SpecClassify == InitClassify /\ [][NextClassify]_vars

\* rename_entrypoint on every text of at most MaxTextLen chunks
InitRename ==
    /\ pc = "rename"
    /\ argc = 3
    /\ input_path = [file_stem |-> Some(<<"x">>)]
    /\ env = AllOk
    /\ module = NoModule
    /\ module_info = <<>>
    /\ entrypoint_name \in {None} \cup {Some(n) : n \in EntryPointNames}
    /\ per_entry_point_map = EmptyMap
    /\ msl_source \in Texts
    /\ msl_final = <<>>
    /\ output_file = None
    /\ result = None
    /\ stderr = <<>>
    /\ exit_status = None
    /\ trace = <<>>

NextRename == Rename

SpecRename == InitRename /\ [][NextRename]_vars

\* the binding-map builder on every module of at most MaxGlobals globals
InitBuild ==
    /\ pc = "build"
    /\ argc = 3
    /\ input_path = [file_stem |-> Some(<<"x">>)]
    /\ env = AllOk
    /\ module \in BuilderModules
    /\ module_info \in ModuleInfos(module)
    /\ entrypoint_name = None
    /\ per_entry_point_map = EmptyMap
    /\ msl_source = <<>>
    /\ msl_final = <<>>
    /\ output_file = None
    /\ result = None
    /\ stderr = <<>>
    /\ exit_status = None
    /\ trace = <<>>

NextBuild == Build

SpecBuild == InitBuild /\ [][NextBuild]_vars

\* ------------------------------------------------------------------ claims

\* a stage of convert_wgsl_to_msl has run to its end
Ran(stage) == \E i \in 1..Len(trace) : trace[i] = stage

IsPrefix(a, b) == Len(a) <= Len(b) /\ a = SubSeq(b, 1, Len(a))

Returned == pc \in {"returned", "exited"} /\ IsSome(result)

\* the output file holds the whole of a text
Written == IsSome(output_file) /\ Unwrap(output_file).complete

\* some entry point uses a global whose binding index is beyond 0..255
OutOfRangeUsed ==
    \E e \in 1..Len(module_info) : \E h \in 1..Len(module.global_variables) :
        /\ module_info[e][h] # {}
        /\ IsSome(module.global_variables[h].binding)
        /\ Unwrap(module.global_variables[h].binding).binding > 255

\* the resource map built for entry point e
ResourcesOf(e) == per_entry_point_map[module.entry_points[e].name].resources

\* global h is one the builder maps for entry point e
Mapped(e, h) ==
    /\ module_info[e][h] # {}
    /\ IsSome(module.global_variables[h].binding)
    /\ module.global_variables[h].space.tag \in {"Uniform", "Storage"}

\* C1: once the binding map of a module that uses a global with a binding index
\* beyond 0..255 is built, the translation has aborted with a binding-range
\* error, no output file is written, and no slot is a truncated index.
C1_BindingRangeAborts ==
    (Ran("build") /\ OutOfRangeUsed) =>
        /\ result = Some("Binding index out of range")
        /\ output_file = None
        /\ \A e \in 1..Len(module.entry_points) : \A key \in DOMAIN ResourcesOf(e) :
              ResourcesOf(e)[key].buffer = Some(key.binding)

\* C2: every entry of an entry point's resource map comes from a global that has
\* that binding, is in uniform or storage space and is used by that entry point.
C2_EntriesAreUsedBuffers ==
    Ran("build") =>
        /\ DOMAIN per_entry_point_map =
              {module.entry_points[e].name : e \in 1..Len(module.entry_points)}
        /\ \A e \in 1..Len(module.entry_points) : \A key \in DOMAIN ResourcesOf(e) :
              \E h \in 1..Len(module.global_variables) :
                 /\ module.global_variables[h].binding = Some(key)
                 /\ Mapped(e, h)

\* a global used only by the other entry point is in that one's map and not in this one's
C2_Witness ==
    /\ Ran("build")
    /\ \E e, f \in 1..Len(module.entry_points) : \E h \in 1..Len(module.global_variables) :
          /\ e # f
          /\ Mapped(f, h)
          /\ module_info[e][h] = {}
          /\ Unwrap(module.global_variables[h].binding) \in DOMAIN ResourcesOf(f)
          /\ Unwrap(module.global_variables[h].binding) \notin DOMAIN ResourcesOf(e)
    /\ \E e \in 1..Len(module.entry_points) : \E h \in 1..Len(module.global_variables) :
          /\ module_info[e][h] # {}
          /\ IsSome(module.global_variables[h].binding)
          /\ module.global_variables[h].space.tag \in {"Handle", "Private"}
          /\ Unwrap(module.global_variables[h].binding) \notin DOMAIN ResourcesOf(e)

\* C3: every used, bound uniform or storage global has an entry under its
\* (group, binding) whose buffer slot is the binding index, whose texture and
\* sampler are unset and whose mutable flag says: storage space with store access.
C3_SlotIsBindingIndex ==
    Ran("build") =>
        \A e \in 1..Len(module.entry_points) : \A h \in 1..Len(module.global_variables) :
            Mapped(e, h) =>
                LET global_var == module.global_variables[h]
                    key == Unwrap(global_var.binding)
                IN  /\ key \in DOMAIN ResourcesOf(e)
                    /\ ResourcesOf(e)[key].buffer = Some(key.binding)
                    /\ ResourcesOf(e)[key].texture = None
                    /\ ResourcesOf(e)[key].sampler = None
                    /\ ResourcesOf(e)[key].mutable =
                          (/\ global_var.space.tag = "Storage"
                           /\ "STORE" \in global_var.space.access)

\* the stem ends with "_vertex" / "_fragment", contains "_overlay_"
StemEndsWith(st, kind) ==
    Len(st) >= 2 /\ st[Len(st) - 1] = "_" /\ st[Len(st)] = kind
StemHasOverlay(st) ==
    \E i \in 1..(Len(st) - 2) : st[i] = "_" /\ st[i + 1] = "overlay" /\ st[i + 2] = "_"

\* C4: the classifier answers for every stem, the first match winning: "_vertex"
\* at the end gives overlay_vertex with "_overlay_" in the stem and main_vertex
\* without, else "_fragment" at the end gives overlay_fragment or main_fragment,
\* and every other stem gives no name.
C4_ClassifierFirstMatch ==
    (pc # "classify" /\ IsSome(input_path.file_stem)) =>
        LET st == Unwrap(input_path.file_stem) IN
        /\ Ran("classify")
        /\ result = None
        /\ entrypoint_name =
              IF StemEndsWith(st, "vertex")
              THEN (IF StemHasOverlay(st) THEN <<"overlay_vertex">> ELSE <<"main_vertex">>)
              ELSE IF StemEndsWith(st, "fragment")
              THEN (IF StemHasOverlay(st) THEN <<"overlay_fragment">> ELSE <<"main_fragment">>)
              ELSE <<>>

\* "_overlay_vertex": the marker and the suffix share an underscore
C4_Witness ==
    /\ Ran("classify")
    /\ input_path.file_stem = Some(<<"_", "overlay", "_", "vertex">>)
    /\ entrypoint_name = Some("overlay_vertex")

\* every stage that comes before the write would succeed
AllBeforeWriteSucceed ==
    /\ env.read /\ env.parse /\ env.validate /\ env.generate
    /\ IsSome(input_path.file_stem)

\* C5: the output file is touched only after read, parse, validate,
\* classification, binding-map construction and generation have succeeded; a
\* run in which one of them fails ends with an error and the file untouched;
\* a failed write is reported as an error.
C5_OutputOnlyAfterSuccess ==
    /\ IsSome(output_file) =>
          /\ \A st \in {"read", "parse", "validate", "classify", "build", "generate"} : Ran(st)
          /\ AllBeforeWriteSucceed
    /\ (Returned /\ ~AllBeforeWriteSucceed) =>
          /\ result # Some("Ok")
          /\ output_file = None
    /\ (Returned /\ AllBeforeWriteSucceed /\ env.write # "ok") =>
          /\ result = Some("Failed to write")
          /\ ~Written
    /\ (pc = "exited" /\ IsSome(result) /\ result # Some("Ok")) =>
          /\ exit_status = Some(1)
          /\ stderr = <<"Error: ", Unwrap(result)>>
    /\ result = Some("Ok") => (Written /\ Unwrap(output_file).text = msl_final)

\* generation fails: the run ends with that error and no output file
C5_Witness ==
    /\ pc = "exited"
    /\ env.read /\ env.parse /\ env.validate /\ ~env.generate
    /\ IsSome(input_path.file_stem)
    /\ result = Some("MSL generation error")
    /\ exit_status = Some(1)
    /\ output_file = None

\* the module is one vertex entry point and the stem is "<x>_overlay_vertex"
OverlayVertexRun ==
    /\ Written
    /\ IsSome(input_path.file_stem)
    /\ LET st == Unwrap(input_path.file_stem) IN
          StemEndsWith(st, "vertex") /\ Len(st) >= 4
          /\ st[Len(st) - 3] = "_" /\ st[Len(st) - 2] = "overlay"
    /\ Len(module.entry_points) = 1
    /\ module.entry_points[1].stage = "vertex"

\* the text declares a function of this kind and name, whatever it returns
DeclaresFunction(text, kind, fn) ==
    \E i \in 1..(Len(text) - 2) : text[i] = kind /\ text[i + 2] = fn

\* the text holds these three chunks in a row
HasDeclaration(text, kind, ret, fn) ==
    \E i \in 1..(Len(text) - 2) : text[i] = kind /\ text[i + 1] = ret /\ text[i + 2] = fn

\* C6 as claimed: whatever the entry point is called in the source, the written
\* text has a function overlay_vertex and no vertex declaration of main_.
C6_AlwaysOverlayVertex ==
    OverlayVertexRun =>
        LET text == Unwrap(output_file).text IN
        /\ \E i \in 1..Len(text) : text[i] = "overlay_vertex("
        /\ ~DeclaresFunction(text, "vertex ", "main_(")

\* C6 as amended: where the generated text declares "vertex main_Output main_(",
\* the written text declares "vertex main_Output overlay_vertex(" and no longer
\* "vertex main_Output main_("; where the generated text has neither default
\* declaration, the written text is the generated text.
C6_OverlayVertexWhenDefaultName ==
    OverlayVertexRun =>
        LET text == Unwrap(output_file).text IN
        /\ HasDeclaration(msl_source, "vertex ", "main_Output ", "main_(") =>
              /\ HasDeclaration(text, "vertex ", "main_Output ", "overlay_vertex(")
              /\ ~HasDeclaration(text, "vertex ", "main_Output ", "main_(")
        /\ (/\ ~HasDeclaration(msl_source, "vertex ", "main_Output ", "main_(")
            /\ ~HasDeclaration(msl_source, "fragment ", "main_Output ", "main_(")) =>
              text = msl_source

C6_Witness ==
    /\ OverlayVertexRun
    /\ module.entry_points[1].name = "main"
    /\ HasDeclaration(msl_source, "vertex ", "main_Output ", "main_(")
    /\ HasDeclaration(Unwrap(output_file).text, "vertex ", "main_Output ", "overlay_vertex(")

\* chunk i of the text is the name in a default declaration of either kind
DefaultNameAt(text, i) ==
    /\ i >= 3
    /\ text[i] = "main_("
    /\ text[i - 1] = "main_Output "
    /\ text[i - 2] \in {"vertex ", "fragment "}

\* b is a with the name of every default declaration replaced, nothing else
OnlyNamesReplaced(a, b, name) ==
    /\ Len(b) = Len(a)
    /\ \A i \in 1..Len(a) :
          b[i] = IF DefaultNameAt(a, i) THEN name \o "(" ELSE a[i]

\* C7: the written text is the generated text when the classifier gives no
\* name, and otherwise the generated text with the names of the default
\* vertex and fragment declarations replaced and no other chunk changed.
C7_WrittenIsGeneratedButNames ==
    Written =>
        LET text == Unwrap(output_file).text IN
        IF IsSome(entrypoint_name)
        THEN OnlyNamesReplaced(msl_source, text, Unwrap(entrypoint_name))
        ELSE text = msl_source

\* a fragment declaration is renamed and the chunks around it are kept
C7_Witness ==
    /\ Written
    /\ entrypoint_name = Some("main_fragment")
    /\ HasDeclaration(msl_source, "fragment ", "main_Output ", "main_(")
    /\ Unwrap(output_file).text # msl_source
    /\ Unwrap(output_file).text[1] = msl_source[1]

\* C8: the renamer returns a text with neither default declaration as it is,
\* and in a text with only one of the two it replaces the names of that one's
\* occurrences and changes nothing else.
C8_RenamerChangesOnlyMatches ==
    (Ran("rename") /\ IsSome(entrypoint_name)) =>
        LET hasV == HasDeclaration(msl_source, "vertex ", "main_Output ", "main_(")
            hasF == HasDeclaration(msl_source, "fragment ", "main_Output ", "main_(")
        IN  /\ (~hasV /\ ~hasF) => msl_final = msl_source
            /\ (hasV # hasF) =>
                  OnlyNamesReplaced(msl_source, msl_final, Unwrap(entrypoint_name))

\* only the vertex declaration, with other chunks before and after it
C8_Witness ==
    /\ Ran("rename")
    /\ msl_source = <<"float4 ", "vertex ", "main_Output ", "main_(", "main_(">>
    /\ entrypoint_name = Some("overlay_vertex")
    /\ msl_final = <<"float4 ", "vertex ", "main_Output ", "overlay_vertex(", "main_(">>

DocumentedOrder ==
    <<"read", "parse", "validate", "build", "generate", "classify", "rename", "write">>
SourceOrder ==
    <<"read", "parse", "validate", "classify", "build", "generate", "rename", "write">>

\* the error of the first stage, in this order, that would fail; Ok if none would
RECURSIVE EarliestFailure(_, _)
EarliestFailure(order, i) ==
    IF i > Len(order) THEN "Ok"
    ELSE IF order[i] = "read" /\ ~env.read THEN "Failed to read"
    ELSE IF order[i] = "parse" /\ ~env.parse THEN "WGSL parse error"
    ELSE IF order[i] = "validate" /\ ~env.validate THEN "Validation error"
    ELSE IF order[i] = "classify" /\ input_path.file_stem = None THEN "Invalid filename"
    ELSE IF order[i] = "generate" /\ ~env.generate THEN "MSL generation error"
    ELSE IF order[i] = "write" /\ env.write # "ok" THEN "Failed to write"
    ELSE EarliestFailure(order, i + 1)

C10_SlotsDistinct ==
    (Ran("build") /\ ~OutOfRangeUsed) =>
        \A e \in 1..Len(module.entry_points) : \A k1, k2 \in DOMAIN ResourcesOf(e) :
            k1 # k2 => ResourcesOf(e)[k1].buffer # ResourcesOf(e)[k2].buffer

\* C10 as amended: in one entry point's map two keys have the same slot exactly
\* when their binding indices are equal modulo 256, whatever their groups.
C10_SlotsDistinctPerBindingIndex ==
    Ran("build") =>
        \A e \in 1..Len(module.entry_points) : \A k1, k2 \in DOMAIN ResourcesOf(e) :
            (ResourcesOf(e)[k1].buffer = ResourcesOf(e)[k2].buffer)
                <=> (k1.binding % 256 = k2.binding % 256)

\* binding 0 of group 0 and binding 0 of group 1 are both given slot 0
C10_Witness ==
    /\ Ran("build")
    /\ \E e \in 1..Len(module.entry_points) :
          /\ ResourceBinding(0, 0) \in DOMAIN ResourcesOf(e)
          /\ ResourceBinding(1, 0) \in DOMAIN ResourcesOf(e)
          /\ ResourcesOf(e)[ResourceBinding(0, 0)].buffer = Some(0)
          /\ ResourcesOf(e)[ResourceBinding(1, 0)].buffer = Some(0)

====
